---- MODULE Spec2Model ----
(***************************************************************************)
(* LibvirtConnectionPool of kvm_mcp/connection/pool.py (the same class is  *)
(* repeated in kvm_mcp_server.py).  Callers are coroutines of one asyncio  *)
(* event loop: the code between two suspension points is one atomic step.  *)
(* The suspension points of the pool are the wait on connections.get()     *)
(* and a connections.put() on a full queue.  Every caller takes one lease. *)
(*                                                                         *)
(* VMInfoCache of kvm_mcp/cache/vm_cache.py (repeated in kvm_mcp_server.py)*)
(* has a specification of its own, CacheSpec, in which whole calls of get, *)
(* set and invalidate are the steps.                                       *)
(***************************************************************************)
EXTENDS Integers, Sequences, FiniteSets, TLC

\* ---------------------------------------------------------------- bounds
NumCallers == 2
MaxMaxConnections == 2
MaxSize == 2
MaxTtl == 2
MaxTime == 3
NumThreads == 2
NumCoroutines == 3

Callers == 1..NumCallers

\* Ways the body of `async with pool.get_connection()` can end.
OpOutcomes == {"ok", "libvirt_error", "other_error", "cancelled", "timeout_error"}

NoConn == 0

VARIABLES
  phase,               \* "new" before __init__ has run, "ready" after
  max_connections,     \* self.max_connections
  connections,         \* self.connections: the asyncio.Queue, as a sequence
  active_connections,  \* self.active_connections
  leaked,              \* number of handles that are open (no close() succeeded on them)
                       \* and that neither the queue nor a caller refers to
  pc,                  \* position of each caller in get_connection
  conn,                \* local variable conn (or new_conn while its put is suspended)
  last,                \* what the last step did and what its caller observed
  max_size,            \* VMInfoCache.max_size
  ttl,                 \* VMInfoCache.ttl
  cache,               \* VMInfoCache.cache: a dict, as a function on its keys
  timestamps,          \* VMInfoCache.timestamps: a dict, as the sequence of its
                       \* <<key, time>> items in insertion order
  now,                 \* what time.time() returns
  clast,               \* the last call on the cache and what it returned
  th,                  \* the call each thread is in and the line it has reached
  vm_state,            \* the hypervisor: whether domain vm1 is defined and active
  mlast,               \* the last call of a function of vm/management.py
  co,                  \* the management call each coroutine is in and where it is suspended
  rpc,                 \* a request given to handle_request of kvm_mcp_server.py and its response
  srv                  \* the server of kvm_mcp/server.py: its input, its output and its tasks

vars == <<phase, max_connections, connections, active_connections,
          leaked, pc, conn, last>>

\* The state outside the connection pool.
nonPool == <<max_size, ttl, cache, timestamps, now, clast, th, vm_state, mlast,
             co, rpc, srv>>

\* Python objects are named by their repr.  None stands for the object None.
None == "None"

\* Keys given to the cache: VM names, the empty string among them, and the key
\* under which list_vms stores the whole inventory.
Keys == {"", "vm1", "vm2", "_all_vms_"}

\* Values stored in the cache: an empty list and a list with one element.
Values == {"[]", "[vm1]"}

\* bool(x) of Python: None, the empty string and the empty list are falsy.
Truthy(x) == x \notin {None, "", "[]"}

\* The dict {}.
EmptyDict == [k \in {} |-> None]

\* op: the method called; key, val: its arguments; ret: what it returned;
\* exc: the exception it raised, or "none"; evicted: the key set has deleted
\* to make room, or None.
NoCall == [op |-> "none", key |-> None, val |-> None, ret |-> None,
           exc |-> "none", evicted |-> None]

\* Threads that call the cache concurrently.
Threads == 1..NumThreads

\* pc: the line of vm_cache.py the thread is about to run, 0 between two
\* calls; key, val: the arguments of its call; oldest: its
\* local oldest_vm; mine: the value its last completed set stored under its
\* own key, None once that entry has been deleted from self.cache.
ThIdle == [pc |-> 0, key |-> None, val |-> None, oldest |-> None,
           mine |-> None]

NoThreads == [t \in Threads |-> ThIdle]

\* The state outside the connection pool and the coroutines.
nonPool_co == <<max_size, ttl, cache, timestamps, now, clast, th, vm_state,
                mlast, rpc, srv>>

\* The variables of the two servers.
serverVars == <<rpc, srv>>

\* A request as handle_request of kvm_mcp_server.py sees it.  json: the text
\* is not JSON ("invalid"), or it is a JSON value that is not an object
\* ("array"), or an object; id, method: request.get("id"), request.get(
\* "method"), None when absent; params: absent, a dict, or another value
\* ("str"); tool: params.get("name"), None when absent.
NoReq == [json |-> "object", id |-> None, method |-> None, params |-> None,
          tool |-> None]

\* A response: its error code (0 for a result) and its id.  Code 1 stands for
\* no response.
NoResp == [code |-> 1, id |-> None]

\* No request has been given to a server.
NoRpc == [req |-> NoReq, out |-> "none", resp |-> NoResp]

\* The server of kvm_mcp/server.py.  pc: where main is ("reading": awaiting
\* readline; "handling": inside handle_request; "stopped": the loop is left);
\* signals: SIGINT/SIGTERM delivered; tasks: shutdown tasks created and not
\* yet run; closed: shutdown has run; nread, nresp: request lines read and
\* responses printed; line, resp: the last of them; raised: an exception has
\* left handle_request; late: a line read after shutdown had run was handled.
\* Here: main has not been started.
NoSrv == [pc |-> "off", signals |-> 0, tasks |-> 0, closed |-> FALSE,
          nread |-> 0, nresp |-> 0,
          line |-> [kind |-> "none", id |-> None], resp |-> NoResp,
          raised |-> FALSE, late |-> FALSE]

ServerUnused == rpc = NoRpc /\ srv = NoSrv

\* The variables of the management functions.
mgmtVars == <<vm_state, mlast, co>>

\* op: the function called; name: its vm_name; use_cache: the argument of
\* list_vms; at: time.time() when it was called; leased: it took a connection
\* from get_connection; enums: calls of listAllDomains; verbs: calls of
\* create, shutdown, destroy or reboot; raised: it raised; success: the
\* "success" of the dict it returned; ret: the list list_vms returned; had:
\* the keys self.cache had when it was called; seq: alternates from one call
\* to the next.
NoOp == [op |-> "none", name |-> None, use_cache |-> FALSE, at |-> 0,
         leased |-> FALSE, enums |-> 0, verbs |-> 0, raised |-> FALSE,
         success |-> FALSE, ret |-> None, had |-> {}, seq |-> 0]

\* Coroutines that call the management functions concurrently.
Coroutines == 1..NumCoroutines

\* pc: "idle" outside a call, "waiting" in connections.get() (pool.py line
\* 39), "using" with a handle and the body of the `async with` still to run,
\* "put_wait" in connections.put() (line 58); op, name, use_cache, force: the
\* call; h: the local conn of get_connection; snap: the local result of
\* list_vms; success: the "success" the call is about to return.
CoIdle == [pc |-> "idle", op |-> "none", name |-> None, use_cache |-> FALSE,
           force |-> FALSE, h |-> 0, snap |-> None, success |-> FALSE]

NoCoroutines == [t \in Coroutines |-> CoIdle]

\* No management function is called.
MgmtUnused == vm_state = "absent" /\ mlast = NoOp /\ co = NoCoroutines

\* No VMInfoCache has been constructed.
CacheUnused ==
  /\ MgmtUnused
  /\ ServerUnused
  /\ max_size = 0 /\ ttl = 0
  /\ cache = EmptyDict /\ timestamps = <<>>
  /\ now = 0 /\ clast = NoCall
  /\ th = NoThreads

\* Outcomes of libvirt.open(uri): a handle, a libvirtError, or a falsy value.
OpenOutcomes == {"ok", "raise", "none"}

\* ev: the step; c: its caller; leased: the handle the caller held before the
\* step; out: how the body ended; result: what the caller observes when the
\* step makes get_connection exit; probed: the handle getVersion() was called
\* on; alive: its answer; close: "ok"/"failed" when close() was called on the
\* probed handle; opens/fails: calls of libvirt.open in the step and how many
\* of them failed; closed: the handles close_all has closed.
NoEv == [ev |-> "init", c |-> 0, leased |-> NoConn, out |-> "none",
         result |-> "none", probed |-> NoConn, alive |-> FALSE,
         close |-> "none", opens |-> 0, fails |-> 0, closed |-> {}]

Range(s) == {s[i] : i \in DOMAIN s}

\* asyncio.Queue.full(): a maxsize <= 0 means the queue is unbounded.
QueueFull(q) == IF max_connections <= 0 THEN FALSE ELSE Len(q) >= max_connections

\* (C5) an open that hands out the first handle of the pool again.
NewHandleShared(c, site) == 1

\* The object a successful libvirt.open returns is a new one.  It is named
\* after the call that opens it: the k-th successful open of _initialize is
\* handle k; in the lease of caller c, line 45 reached from the wait is site 1,
\* line 45 reached from the body is site 2, line 71 is site 3.
NewHandle(c, site) == MaxMaxConnections + 3 * (c - 1) + site

\* (C1) get() without the removal of the item it returns.
QueueAfterGetKeepsItem(q) == q

\* The queue after get() has removed its first item.
QueueAfterGet(q) == Tail(q)

\* (C9) _initialize without line 26.
RECURSIVE InitLoopNoCount(_, _)
InitLoopNoCount(outs, st) ==
  IF outs = <<>> THEN st
  ELSE IF Head(outs) = "ok"
       THEN InitLoopNoCount(Tail(outs), [st EXCEPT !.q = Append(st.q, st.op + 1),
                                                   !.op = st.op + 1])
       ELSE InitLoopNoCount(Tail(outs), [st EXCEPT !.fl = st.fl + 1])

\* (C10) _initialize that gives up at the first open that fails.
RECURSIVE InitLoopStopsOnFailure(_, _)
InitLoopStopsOnFailure(outs, st) ==
  IF outs = <<>> THEN st
  ELSE IF Head(outs) = "ok"
       THEN InitLoopStopsOnFailure(Tail(outs),
                                   [st EXCEPT !.q = Append(st.q, st.op + 1),
                                              !.act = st.act + 1,
                                              !.op = st.op + 1])
       ELSE [st EXCEPT !.fl = st.fl + 1]

\* _initialize: one iteration per element of outs, the outcomes of the opens.
\* st = [q |-> queue, act |-> active_connections, op |-> successful opens,
\*       fl |-> failed opens]
RECURSIVE InitLoop(_, _)
InitLoop(outs, st) ==
  IF outs = <<>> THEN st
  ELSE IF Head(outs) = "ok"
       THEN InitLoop(Tail(outs), [st EXCEPT !.q = Append(st.q, st.op + 1),
                                            !.act = st.act + 1,
                                            !.op = st.op + 1])
       ELSE InitLoop(Tail(outs), [st EXCEPT !.fl = st.fl + 1])

Init ==
  /\ phase = "new"
  /\ max_connections \in 0..MaxMaxConnections
  /\ connections = <<>>
  /\ active_connections = 0
  /\ leaked = 0
  /\ pc = [c \in Callers |-> "idle"]
  /\ conn = [c \in Callers |-> NoConn]
  /\ last = NoEv
  /\ CacheUnused

\* LibvirtConnectionPool.__init__ with its call of _initialize.
Construct ==
  /\ phase = "new"
  /\ \E outs \in [1..max_connections -> OpenOutcomes] :
       LET st == InitLoop(outs, [q |-> <<>>, act |-> 0, op |-> 0, fl |-> 0])
       IN /\ connections' = st.q
          /\ active_connections' = st.act
          /\ last' = [NoEv EXCEPT !.ev = "construct", !.opens = st.op + st.fl,
                                  !.fails = st.fl]
  /\ phase' = "ready"
  /\ UNCHANGED <<nonPool, max_connections, leaked, pc, conn>>

\* (C4) a pool that opens a handle on timeout only below its capacity.
WaitTimesOutBelowCapacity(c) ==
  pc[c] = "waiting" /\ active_connections < max_connections

\* The wait of line 39 ends with asyncio.TimeoutError: the timer of wait_for
\* fires whatever the pool holds and however many leases are outstanding.
WaitTimesOut(c) == pc[c] = "waiting"

\* A caller enters `async with pool.get_connection()` and waits on the queue.
\* Callers are numbered in the order in which they enter.
Begin(c) ==
  /\ phase = "ready"
  /\ pc[c] = "idle"
  /\ \A d \in Callers : d < c => pc[d] # "idle"
  /\ pc' = [pc EXCEPT ![c] = "waiting"]
  /\ last' = [NoEv EXCEPT !.ev = "begin", !.c = c]
  /\ UNCHANGED <<nonPool, phase, max_connections, connections,
                 active_connections, leaked, conn>>

\* connections.get() returns the first queued handle, which is yielded.
Take(c) ==
  /\ pc[c] = "waiting"
  /\ connections # <<>>
  /\ conn' = [conn EXCEPT ![c] = Head(connections)]
  /\ connections' = QueueAfterGet(connections)
  /\ pc' = [pc EXCEPT ![c] = "using"]
  /\ last' = [NoEv EXCEPT !.ev = "take", !.c = c]
  /\ UNCHANGED <<nonPool, phase, max_connections, active_connections, leaked>>

\* (C15) a failed fallback open that is accounted as the loss of a handle.
TimeoutFailureCountsDown(c) ==
  /\ WaitTimesOut(c)
  /\ \E out \in OpenOutcomes :
       IF out = "ok"
       THEN /\ conn' = [conn EXCEPT ![c] = NewHandle(c, 1)]
            /\ pc' = [pc EXCEPT ![c] = "using"]
            /\ last' = [NoEv EXCEPT !.ev = "timeout", !.c = c, !.opens = 1]
            /\ UNCHANGED active_connections
       ELSE /\ pc' = [pc EXCEPT ![c] = "exited"]
            /\ last' = [NoEv EXCEPT !.ev = "timeout", !.c = c, !.opens = 1,
                                    !.fails = 1, !.result = "conn_error"]
            /\ active_connections' = active_connections - 1
            /\ UNCHANGED conn
  /\ UNCHANGED <<nonPool, phase, max_connections, connections, leaked>>

\* except asyncio.TimeoutError of the acquiring caller: open a handle and
\* yield it; a failed open raises libvirtError out of get_connection with
\* conn still None, so the finally block does nothing.
Timeout(c) ==
  /\ WaitTimesOut(c)
  /\ \E out \in OpenOutcomes :
       IF out = "ok"
       THEN /\ conn' = [conn EXCEPT ![c] = NewHandle(c, 1)]
            /\ pc' = [pc EXCEPT ![c] = "using"]
            /\ last' = [NoEv EXCEPT !.ev = "timeout", !.c = c, !.opens = 1]
       ELSE /\ pc' = [pc EXCEPT ![c] = "exited"]
            /\ last' = [NoEv EXCEPT !.ev = "timeout", !.c = c, !.opens = 1,
                                    !.fails = 1, !.result = "conn_error"]
            /\ UNCHANGED conn
  /\ UNCHANGED <<nonPool, phase, max_connections, connections,
                 active_connections, leaked>>

\* (C13) a finally block out of which a failed replacement open raises.
ReleaseResultRaises(res, alive, closeOk, replOk) ==
  IF ~alive /\ ~replOk THEN "conn_error" ELSE res

\* What leaves get_connection after the finally block, when res is what was
\* leaving it before: a libvirtError of getVersion() is caught by line 60, a
\* failure of close() by line 66 and a failure of the replacement by line 75.
ReleaseResult(res, alive, closeOk, replOk) == res

\* (C14) a release that puts the handle whose probe failed back in the queue.
EnqueuedAfterDeadProbeIsOld(h, new) == h

\* What the finally block enqueues after the probe of h has failed: new_conn,
\* the handle opened on line 71; conn itself is closed and dropped.
EnqueuedAfterDeadProbe(h, new) == new

\* The finally block of get_connection run on handle h by caller c.  e is the
\* record of the step so far, lk the value of leaked when the block starts.
Release(c, h, e, lk) ==
  /\ UNCHANGED <<nonPool, phase, max_connections>>
  /\ \E alive \in BOOLEAN :
       IF alive
       THEN \* conn.getVersion() returned: await self.connections.put(conn)
            /\ leaked' = lk
            /\ last' = [e EXCEPT !.probed = h, !.alive = TRUE,
                                  !.result = ReleaseResult(e.result, TRUE, TRUE, TRUE)]
            /\ UNCHANGED active_connections
            /\ IF ~QueueFull(connections)
               THEN /\ connections' = Append(connections, h)
                    /\ pc' = [pc EXCEPT ![c] = "exited"]
                    /\ conn' = [conn EXCEPT ![c] = NoConn]
               ELSE /\ pc' = [pc EXCEPT ![c] = "put_wait"]
                    /\ conn' = [conn EXCEPT ![c] = h]
                    /\ UNCHANGED connections
       ELSE \* conn.getVersion() raised libvirtError: close, then replace
            \E closeOk \in BOOLEAN, out \in OpenOutcomes :
              LET act == IF closeOk THEN active_connections - 1
                                    ELSE active_connections
                  e1 == [e EXCEPT !.probed = h, !.alive = FALSE,
                                  !.close = IF closeOk THEN "ok" ELSE "failed",
                                  !.opens = e.opens + 1,
                                  !.result = ReleaseResult(e.result, FALSE,
                                                           closeOk, out = "ok")]
              IN /\ leaked' = IF closeOk THEN lk ELSE lk + 1
                 /\ IF out = "ok"
                    THEN /\ last' = e1
                         /\ IF ~QueueFull(connections)
                            THEN /\ connections' =
                                      Append(connections,
                                             EnqueuedAfterDeadProbe(h, NewHandle(c, 3)))
                                 /\ active_connections' = act + 1
                                 /\ pc' = [pc EXCEPT ![c] = "exited"]
                                 /\ conn' = [conn EXCEPT ![c] = NoConn]
                            ELSE /\ active_connections' = act
                                 /\ pc' = [pc EXCEPT ![c] = "repl_put_wait"]
                                 /\ conn' = [conn EXCEPT ![c] =
                                              EnqueuedAfterDeadProbe(h, NewHandle(c, 3))]
                                 /\ UNCHANGED connections
                    ELSE /\ last' = [e1 EXCEPT !.fails = e.fails + 1]
                         /\ active_connections' = act
                         /\ pc' = [pc EXCEPT ![c] = "exited"]
                         /\ conn' = [conn EXCEPT ![c] = NoConn]
                         /\ UNCHANGED connections

\* (C16) an except clause that also takes a libvirtError of the body for a
\* timeout of the wait.
CaughtAsTimeoutOrLibvirt(o) == o \in {"timeout_error", "libvirt_error"}

\* `except asyncio.TimeoutError` (line 42) catches outcome o of the body.
CaughtAsTimeout(o) == o = "timeout_error"

\* The body of the `async with` ends with outcome o, which is thrown into the
\* generator at its yield (line 41 or 48).
OpEnd(c) ==
  /\ pc[c] = "using"
  /\ \E o \in OpOutcomes :
       LET e == [NoEv EXCEPT !.ev = "op_end", !.c = c, !.leased = conn[c],
                             !.out = o, !.result = o]
       IN IF ~CaughtAsTimeout(o)
          THEN \* not caught by `except asyncio.TimeoutError`: finally runs on conn
               Release(c, conn[c], e, leaked)
          ELSE \* a TimeoutError of the body is caught by line 42 like a timeout
               \* of the wait: the generator opens a handle and yields once more
               \E out \in OpenOutcomes :
                 CASE out = "ok" ->
                        \* RuntimeError("generator didn't stop after athrow()")
                        \* the leased handle is no longer referred to
                        /\ leaked' = leaked + 1
                        /\ conn' = [conn EXCEPT ![c] = NewHandle(c, 2)]
                        /\ pc' = [pc EXCEPT ![c] = "orphaned"]
                        /\ last' = [e EXCEPT !.result = "runtime_error",
                                             !.opens = 1]
                        /\ UNCHANGED <<nonPool, phase, max_connections,
                                       connections, active_connections>>
                   [] out = "raise" ->
                        \* conn keeps the leased handle; libvirtError is re-raised
                        Release(c, conn[c],
                                [e EXCEPT !.result = "conn_error", !.opens = 1,
                                          !.fails = 1], leaked)
                   [] out = "none" ->
                        \* conn = None, then raise: `if conn` skips the release
                        /\ leaked' = leaked + 1
                        /\ conn' = [conn EXCEPT ![c] = NoConn]
                        /\ pc' = [pc EXCEPT ![c] = "exited"]
                        /\ last' = [e EXCEPT !.result = "conn_error",
                                             !.opens = 1, !.fails = 1]
                        /\ UNCHANGED <<nonPool, phase, max_connections,
                                       connections, active_connections>>

\* The generator left suspended at its second yield is closed (aclose by the
\* context manager or by the event loop's finalizer): finally runs on conn.
Finalize(c) ==
  /\ pc[c] = "orphaned"
  /\ Release(c, conn[c], [NoEv EXCEPT !.ev = "finalize", !.c = c], leaked)

\* await self.connections.put(conn) of line 58 resumes once the queue has room.
PutResume(c) ==
  /\ pc[c] = "put_wait"
  /\ ~QueueFull(connections)
  /\ connections' = Append(connections, conn[c])
  /\ pc' = [pc EXCEPT ![c] = "exited"]
  /\ conn' = [conn EXCEPT ![c] = NoConn]
  /\ last' = [NoEv EXCEPT !.ev = "put_resume", !.c = c]
  /\ UNCHANGED <<nonPool, phase, max_connections, active_connections, leaked>>

\* await self.connections.put(new_conn) of line 73 resumes, then line 74.
ReplPutResume(c) ==
  /\ pc[c] = "repl_put_wait"
  /\ ~QueueFull(connections)
  /\ connections' = Append(connections, conn[c])
  /\ active_connections' = active_connections + 1
  /\ pc' = [pc EXCEPT ![c] = "exited"]
  /\ conn' = [conn EXCEPT ![c] = NoConn]
  /\ last' = [NoEv EXCEPT !.ev = "repl_put_resume", !.c = c]
  /\ UNCHANGED <<nonPool, phase, max_connections, leaked>>

\* (C19) a loop out of which the exception of a failed close() propagates.
RECURSIVE CloseLoopStopsOnFailure(_, _, _)
CloseLoopStopsOnFailure(q, bad, st) ==
  IF q = <<>> THEN st
  ELSE IF Head(q) \in bad
       THEN [st EXCEPT !.q = Tail(q), !.raised = TRUE]
       ELSE CloseLoopStopsOnFailure(Tail(q), bad,
                                    [st EXCEPT !.q = Tail(q),
                                               !.act = st.act - 1,
                                               !.closed = st.closed \cup {Head(q)}])

\* (C20) a loop that counts a handle down whether or not its close() worked.
RECURSIVE CloseLoopCountsFailedClose(_, _, _)
CloseLoopCountsFailedClose(q, bad, st) ==
  IF q = <<>> THEN st
  ELSE IF Head(q) \in bad
       THEN CloseLoopCountsFailedClose(Tail(q), bad,
                                       [st EXCEPT !.q = Tail(q),
                                                  !.act = st.act - 1,
                                                  !.lk = st.lk + 1])
       ELSE CloseLoopCountsFailedClose(Tail(q), bad,
                                       [st EXCEPT !.q = Tail(q),
                                                  !.act = st.act - 1,
                                                  !.closed = st.closed \cup {Head(q)}])

\* The loop of close_all over queue q; bad is the set of handles whose close()
\* raises.  st = [q |-> what is left in the queue, act |-> active_connections,
\* lk |-> leaked, closed |-> the handles closed so far, raised |-> whether an
\* exception has left the loop]
RECURSIVE CloseLoop(_, _, _)
CloseLoop(q, bad, st) ==
  IF q = <<>> THEN st
  ELSE IF Head(q) \in bad
       THEN CloseLoop(Tail(q), bad, [st EXCEPT !.q = Tail(q),
                                               !.lk = st.lk + 1])
       ELSE CloseLoop(Tail(q), bad, [st EXCEPT !.q = Tail(q),
                                               !.act = st.act - 1,
                                               !.closed = st.closed \cup {Head(q)}])

\* close_all: no suspension point, so the whole drain is one step.
CloseAll ==
  /\ phase = "ready"
  /\ connections # <<>>
  /\ \E bad \in SUBSET Range(connections) :
       LET st == CloseLoop(connections, bad,
                           [q |-> connections, act |-> active_connections,
                            lk |-> leaked, closed |-> {}, raised |-> FALSE])
       IN /\ connections' = st.q
          /\ active_connections' = st.act
          /\ leaked' = st.lk
          /\ last' = [NoEv EXCEPT !.ev = "close_all",
                                  !.close = IF bad = {} THEN "ok" ELSE "failed",
                                  !.closed = st.closed,
                                  !.result = IF st.raised THEN "other_error"
                                                          ELSE "none"]
  /\ UNCHANGED <<nonPool, phase, max_connections, pc, conn>>

Next ==
  \/ Construct
  \/ CloseAll
  \/ \E c \in Callers : Begin(c)
  \/ \E c \in Callers : Take(c)
  \/ \E c \in Callers : Timeout(c)
  \/ \E c \in Callers : OpEnd(c)
  \/ \E c \in Callers : Finalize(c)
  \/ \E c \in Callers : PutResume(c)
  \/ \E c \in Callers : ReplPutResume(c)

Spec == Init /\ [][Next]_vars

\* The event loop runs the timer of wait_for: a caller that waits on the queue
\* is resumed by the timeout if nothing else resumes it.
FairSpec == Spec /\ \A c \in Callers : WF_vars(Timeout(c))

\* ------------------------------------------------------- the VM info cache

\* d with the item of key k deleted (del d[k]), and d with d[k] = v.
DictDel(d, k) == [x \in DOMAIN d \ {k} |-> d[x]]
DictPut(d, k, v) == [x \in DOMAIN d \cup {k} |-> IF x = k THEN v ELSE d[x]]

\* The dict self.timestamps as the sequence ts of its items: its keys, the
\* time of key k, del ts[k], and ts[k] = t, which keeps the place of a key
\* that is present and adds a new key at the end.
TsKeys(ts) == {ts[i][1] : i \in DOMAIN ts}
TsGet(ts, k) == ts[CHOOSE i \in DOMAIN ts : ts[i][1] = k][2]
TsDel(ts, k) == SelectSeq(ts, LAMBDA e : e[1] # k)
TsPut(ts, k, t) ==
  IF k \in TsKeys(ts)
  THEN [i \in DOMAIN ts |-> IF ts[i][1] = k THEN <<k, t>> ELSE ts[i]]
  ELSE Append(ts, <<k, t>>)

\* (C23) an eviction of the entry with the greatest time.
OldestIsYoungest(ts) ==
  ts[CHOOSE i \in DOMAIN ts : \A j \in DOMAIN ts : ts[i][2] >= ts[j][2]][1]

\* min(self.timestamps.items(), key=lambda x: x[1])[0]: the key of the first
\* item, in the order of the dict, among those with the smallest time.
Oldest(ts) ==
  ts[CHOOSE i \in DOMAIN ts :
       /\ \A j \in DOMAIN ts : ts[i][2] <= ts[j][2]
       /\ \A j \in DOMAIN ts : j < i => ts[i][2] < ts[j][2]][1]

\* What a call leaves: the two dicts, the value returned, the exception
\* raised, and no key evicted.
Outcome(c, ts, r, x) ==
  [cache |-> c, timestamps |-> ts, ret |-> r, exc |-> x, evicted |-> None]

\* (C21) a get for which an entry is still valid when exactly ttl has passed.
CacheGetNonStrict(c, ts, k, t) ==
  IF k \in DOMAIN c
  THEN IF t - TsGet(ts, k) <= ttl
       THEN Outcome(c, ts, c[k], "none")
       ELSE Outcome(DictDel(c, k), TsDel(ts, k), None, "none")
  ELSE Outcome(c, ts, None, "none")

\* (C24) a get that makes the entry it returns as young as a new one.
CacheGetRefreshes(c, ts, k, t) ==
  IF k \in DOMAIN c
  THEN IF t - TsGet(ts, k) < ttl
       THEN Outcome(c, TsPut(ts, k, t), c[k], "none")
       ELSE Outcome(DictDel(c, k), TsDel(ts, k), None, "none")
  ELSE Outcome(c, ts, None, "none")

\* VMInfoCache.get(k) at time t.
CacheGet(c, ts, k, t) ==
  IF k \in DOMAIN c
  THEN IF t - TsGet(ts, k) < ttl
       THEN Outcome(c, ts, c[k], "none")
       ELSE Outcome(DictDel(c, k), TsDel(ts, k), None, "none")
  ELSE Outcome(c, ts, None, "none")

\* (C22) a set that evicts only once the cache holds more than max_size.
CacheSetEvictsLate(c, ts, k, v, t) ==
  IF Cardinality(DOMAIN c) > max_size
  THEN IF ts = <<>>
       THEN Outcome(c, ts, None, "ValueError")
       ELSE LET oldest_vm == Oldest(ts)
                c1 == DictDel(c, oldest_vm)
                ts1 == TsDel(ts, oldest_vm)
            IN [Outcome(DictPut(c1, k, v), TsPut(ts1, k, t), None, "none")
                  EXCEPT !.evicted = oldest_vm]
  ELSE Outcome(DictPut(c, k, v), TsPut(ts, k, t), None, "none")

\* VMInfoCache.set(k, v) at time t.  min() of an empty dict raises ValueError.
CacheSet(c, ts, k, v, t) ==
  IF Cardinality(DOMAIN c) >= max_size
  THEN IF ts = <<>>
       THEN Outcome(c, ts, None, "ValueError")
       ELSE LET oldest_vm == Oldest(ts)
                c1 == DictDel(c, oldest_vm)
                ts1 == TsDel(ts, oldest_vm)
            IN [Outcome(DictPut(c1, k, v), TsPut(ts1, k, t), None, "none")
                  EXCEPT !.evicted = oldest_vm]
  ELSE Outcome(DictPut(c, k, v), TsPut(ts, k, t), None, "none")

\* (C37) an invalidate that forgets the value of a key but keeps its time.
CacheInvalidateKeepsTime(c, ts, a) ==
  IF Truthy(a)
  THEN IF a \in DOMAIN c
       THEN Outcome(DictDel(c, a), ts, None, "none")
       ELSE Outcome(c, ts, None, "none")
  ELSE Outcome(EmptyDict, <<>>, None, "none")

\* VMInfoCache.invalidate(a): a is a key, or None when no argument is given.
CacheInvalidate(c, ts, a) ==
  IF Truthy(a)
  THEN IF a \in DOMAIN c
       THEN Outcome(DictDel(c, a), TsDel(ts, a), None, "none")
       ELSE Outcome(c, ts, None, "none")
  ELSE Outcome(EmptyDict, <<>>, None, "none")

\* The pool is not used by the specification of the cache.
PoolUnused ==
  /\ phase = "off" /\ max_connections = 0
  /\ connections = <<>> /\ active_connections = 0 /\ leaked = 0
  /\ pc = [c \in Callers |-> "idle"]
  /\ conn = [c \in Callers |-> NoConn]
  /\ last = NoEv

\* VMInfoCache.__init__(max_size, ttl).
CacheInit ==
  /\ PoolUnused
  /\ max_size \in 0..MaxSize
  /\ ttl \in 0..MaxTtl
  /\ MgmtUnused
  /\ ServerUnused
  /\ cache = EmptyDict
  /\ timestamps = <<>>
  /\ now = 0
  /\ clast = NoCall
  /\ th = NoThreads

\* The record of a call of method op with arguments k and v and outcome o.
Call(op, k, v, o) ==
  [op |-> op, key |-> k, val |-> v, ret |-> o.ret, exc |-> o.exc,
   evicted |-> o.evicted]

\* A call of get(k).
Get(k) ==
  LET o == CacheGet(cache, timestamps, k, now)
  IN /\ cache' = o.cache
     /\ timestamps' = o.timestamps
     /\ clast' = Call("get", k, None, o)
     /\ UNCHANGED <<vars, mgmtVars, serverVars, th, max_size, ttl, now>>

\* A call of set(k, v).
Set(k, v) ==
  LET o == CacheSet(cache, timestamps, k, v, now)
  IN /\ cache' = o.cache
     /\ timestamps' = o.timestamps
     /\ clast' = Call("set", k, v, o)
     /\ UNCHANGED <<vars, mgmtVars, serverVars, th, max_size, ttl, now>>

\* A call of invalidate(a), or of invalidate() when a is None.
Invalidate(a) ==
  LET o == CacheInvalidate(cache, timestamps, a)
  IN /\ cache' = o.cache
     /\ timestamps' = o.timestamps
     /\ clast' = Call("invalidate", a, None, o)
     /\ UNCHANGED <<vars, mgmtVars, serverVars, th, max_size, ttl, now>>

\* Time passes between two calls.
Tick ==
  /\ now < MaxTime
  /\ now' = now + 1
  /\ clast' = [NoCall EXCEPT !.op = "tick"]
  /\ UNCHANGED <<vars, mgmtVars, serverVars, th, max_size, ttl, cache, timestamps>>

CacheNext ==
  \/ \E k \in Keys : Get(k)
  \/ \E k \in Keys, v \in Values : Set(k, v)
  \/ \E a \in Keys \cup {None} : Invalidate(a)
  \/ Tick

cacheVars == <<max_size, ttl, cache, timestamps, now, clast, th>>

CacheSpec == CacheInit /\ [][CacheNext]_cacheVars

\* ------------------------------------------------------------ the claims

Leased == {c \in Callers : pc[c] = "using"}

\* No call of get_connection or of its release logic is suspended or pending.
Quiescent ==
  phase = "ready" /\ \A c \in Callers : pc[c] \in {"idle", "using", "exited"}

\* C1: no handle is held by two leases at the same time, and a handle that
\* is leased is not in the available queue.
C1_LeaseIsExclusive ==
  \A c \in Leased :
    /\ conn[c] # NoConn
    /\ \A i \in DOMAIN connections : connections[i] # conn[c]
    /\ \A d \in Leased : d # c => conn[d] # conn[c]

\* Two leases are outstanding, one of them from the timeout fallback, while
\* the queue holds a handle.
C1_Witness ==
  /\ connections # <<>>
  /\ \E c, d \in Leased : c # d /\ conn[c] <= MaxMaxConnections
                                /\ conn[d] > MaxMaxConnections

\* C2: however the body of a lease ends, the release logic runs on the
\* handle that was leased: that handle is probed, and is then put back in the
\* queue (or is being put back) or close() is called on it.
C2_ReleaseOnEveryExit ==
  last.ev = "op_end" =>
    /\ last.probed = last.leased
    /\ IF last.alive
       THEN \/ \E i \in DOMAIN connections : connections[i] = last.leased
            \/ pc[last.c] = "put_wait" /\ conn[last.c] = last.leased
       ELSE last.close \in {"ok", "failed"}

\* C3: the release step never waits: no caller is suspended in the put of
\* line 58 or of line 73.
C3_ReleaseNeverWaits ==
  \A c \in Callers : pc[c] \notin {"put_wait", "repl_put_wait"}

\* C4: every call of get_connection finishes acquiring: a caller that waits
\* on the queue gets a handle of the queue, or at the timeout a newly opened
\* handle, or a connection error when that open fails; it is never left
\* waiting and never rejected because the pool is exhausted.
C4_AcquireFinishes ==
  /\ \A c \in Callers : (pc[c] = "waiting") ~> (pc[c] # "waiting")
  /\ [](last.ev = "take" => pc[last.c] = "using" /\ conn[last.c] # NoConn)
  /\ [](last.ev = "timeout" =>
          IF last.fails = 0
          THEN pc[last.c] = "using" /\ conn[last.c] = NewHandle(last.c, 1)
          ELSE pc[last.c] = "exited" /\ last.result = "conn_error")

\* A caller has just been given a fallback handle while every handle of a
\* fully initialised pool is leased and nothing is queued.
C4_Witness ==
  /\ last.ev = "timeout" /\ last.fails = 0
  /\ max_connections >= 1 /\ connections = <<>>
  /\ Cardinality({c \in Leased : conn[c] <= MaxMaxConnections}) = max_connections

\* C5: a get_connection whose wait times out performs exactly one open and,
\* when the open succeeds, is given the handle it opened, which no other lease
\* holds and which is not queued.  In the scenario with max_connections = 1:
\* the construction has called libvirt.open once, taking the pooled handle
\* calls it not at all, and the second acquire, which times out, calls it once
\* and gets the second handle: two calls in all, two distinct handles leased.
C5_TimeoutOpensOneFreshHandle ==
  /\ (last.ev = "construct" /\ max_connections = 1) => last.opens = 1
  /\ last.ev = "take" => last.opens = 0
  /\ last.ev = "timeout" =>
       /\ last.opens = 1
       /\ last.fails = 0 =>
            /\ pc[last.c] = "using" /\ conn[last.c] # NoConn
            /\ \A d \in Callers : d # last.c => conn[d] # conn[last.c]
            /\ \A i \in DOMAIN connections : connections[i] # conn[last.c]

\* The scenario of test_connection_pool_timeout: the one handle of the pool
\* is leased and the second acquire has just timed out and got its handle.
C5_Witness ==
  /\ last.ev = "timeout" /\ last.fails = 0 /\ max_connections = 1
  /\ \E d \in Leased : d # last.c /\ conn[d] = 1 /\ Leased = {d, last.c}
  /\ \A d \in Callers : pc[d] \in {"idle", "using"}
  /\ active_connections = 1 /\ connections = <<>>

\* C6: whenever no dead-handle replacement is in progress,
\* active_connections <= max_connections.
C6_ActiveWithinMax ==
  (\A c \in Callers : pc[c] # "repl_put_wait") =>
    active_connections <= max_connections

\* C7: whenever no acquire or release is mid-step, active_connections is the
\* number of handles that were opened and on which no close() has succeeded:
\* those in the queue, those leased and those nothing refers to any more.
C7_ActiveCountsOpenHandles ==
  Quiescent =>
    active_connections = Len(connections) + Cardinality(Leased) + leaked

\* C8: the available queue never holds more than max_connections handles.
C8_QueueWithinCapacity == Len(connections) <= max_connections

\* C9: with a factory whose open always succeeds, construction performs
\* exactly max_connections opens and leaves active_connections and the size
\* of the queue equal to max_connections.
C9_ConstructionFillsPool ==
  (last.ev = "construct" /\ last.fails = 0) =>
    /\ last.opens = max_connections
    /\ active_connections = max_connections
    /\ Len(connections) = max_connections

C9_Witness ==
  /\ last.ev = "construct" /\ last.fails = 0
  /\ max_connections = MaxMaxConnections
  /\ Len(connections) = MaxMaxConnections

\* C10: when opens fail during construction, construction still completes
\* after attempting all max_connections opens, and active_connections and the
\* size of the queue both equal the number of opens that succeeded.
C10_PartialConstruction ==
  last.ev = "construct" =>
    /\ phase = "ready"
    /\ last.opens = max_connections
    /\ active_connections = last.opens - last.fails
    /\ Len(connections) = last.opens - last.fails

\* Some, but not all, opens of the construction have failed.
C10_Witness ==
  /\ last.ev = "construct"
  /\ 0 < last.fails /\ last.fails < max_connections
  /\ Len(connections) = max_connections - last.fails

\* Calls of libvirt.open made by the finally block in the step recorded by e:
\* the open of line 45 that a TimeoutError of the body causes is not one.
ReleaseOpens(e) == e.opens - (IF e.out = "timeout_error" THEN 1 ELSE 0)

\* Caller c leases a handle it got from the queue, not one it opened itself.
LeasedFromQueue(c) ==
  pc[c] = "using" /\ conn[c] \notin {NewHandle(c, 1), NewHandle(c, 2)}

\* C11: when a caller that got its handle from the queue releases it and the
\* liveness probe succeeds, active_connections is unchanged, the release opens
\* and closes nothing, and the same handle is back at the end of the queue.
C11_LiveReleaseRestoresPool ==
  [][\A c \in Callers :
       (LeasedFromQueue(c) /\ pc'[c] # "using"
          /\ last'.probed = conn[c] /\ last'.alive)
       => /\ active_connections' = active_connections
          /\ ReleaseOpens(last') = 0
          /\ last'.close = "none"
          /\ connections' = Append(connections, conn[c])]_vars

\* Failed calls of libvirt.open made by the finally block in the step recorded
\* by e: the finally block runs after a TimeoutError of the body only when the
\* open of line 45 has raised, and that failure is not one of the block.
ReleaseFails(e) == e.fails - (IF e.out = "timeout_error" THEN 1 ELSE 0)

\* C12: a release whose liveness probe fails closes the handle and opens one
\* replacement; when the replacement is opened it is in the queue and
\* active_connections is what it was before the release, and when the open
\* fails active_connections is one lower than before the release.
C12_DeadReleaseReplaces ==
  [][\A c \in Callers :
       (pc[c] \in {"using", "orphaned"} /\ pc'[c] # pc[c]
          /\ last'.probed = conn[c] /\ ~last'.alive)
       => /\ last'.close = "ok"
          /\ ReleaseOpens(last') = 1
          /\ ReleaseFails(last') = 0
               => /\ connections' = Append(connections, NewHandle(c, 3))
                  /\ active_connections' = active_connections
          /\ ReleaseFails(last') = 1
               => /\ connections' = connections
                  /\ active_connections' = active_connections - 1]_vars

\* C13: when the probe, the close or the replacement open fails in a release,
\* the caller observes what was leaving get_connection when the release
\* started: the outcome of its own body, or, after a TimeoutError of the body
\* whose open has raised, that libvirtError (line 51); closing an abandoned
\* generator reports nothing to any caller.
C13_ReleaseFailureIsSwallowed ==
  (last.ev \in {"op_end", "finalize"} /\ last.probed # NoConn /\ ~last.alive)
  => last.result = (CASE last.ev = "finalize" -> "none"
                      [] last.out = "timeout_error" -> "conn_error"
                      [] OTHER -> last.out)

\* A body that returned normally, a release whose probe, close and replacement
\* open all failed, and a caller that has left the lease without an error.
C13_Witness ==
  /\ last.ev = "op_end" /\ last.out = "ok" /\ last.result = "ok"
  /\ last.probed = last.leased /\ ~last.alive
  /\ last.close = "failed" /\ ReleaseFails(last) = 1
  /\ pc[last.c] = "exited"

\* C14: a handle enters the queue only at construction, when its probe has
\* just succeeded (at once, or when the suspended put of that release
\* resumes), or as the replacement opened in the step; a caller is handed only
\* the head of the queue or a handle opened for it; and the handle whose probe
\* has failed is in the queue and in a lease no more.  A handle is never opened
\* twice, so a handle whose probe failed never comes back.
C14_DeadHandleNeverQueued ==
  [][/\ \A h \in Range(connections') \ Range(connections) :
          \/ last'.ev = "construct"
          \/ last'.probed = h /\ last'.alive
          \/ /\ last'.probed # NoConn /\ ~last'.alive
             /\ h = NewHandle(last'.c, 3)
          \/ \E c \in Callers : pc[c] = "put_wait" /\ conn[c] = h
          \/ \E c \in Callers : /\ pc[c] = "repl_put_wait" /\ conn[c] = h
                                /\ h = NewHandle(c, 3)
     /\ \A c \in Callers :
          /\ (pc'[c] = "put_wait" /\ pc[c] # "put_wait")
               => last'.alive /\ last'.probed = conn'[c]
          /\ (pc'[c] = "repl_put_wait" /\ pc[c] # "repl_put_wait")
               => conn'[c] = NewHandle(c, 3)
          /\ (pc'[c] = "using" /\ pc[c] # "using")
               => \/ conn'[c] = NewHandle(c, 1)
                  \/ connections # <<>> /\ conn'[c] = Head(connections)
     /\ (last'.probed # NoConn /\ ~last'.alive)
          => /\ last'.probed \notin Range(connections')
             /\ \A c \in Callers : conn'[c] # last'.probed]_vars

\* A probe has failed, the replacement is queued and the dead handle is not.
C14_Witness ==
  /\ last.ev = "op_end" /\ last.probed = last.leased /\ ~last.alive
  /\ last.probed <= MaxMaxConnections
  /\ connections = <<NewHandle(last.c, 3)>>

\* C15: when the wait times out and the fallback open fails, the caller leaves
\* get_connection with the connection error without having run its body, no
\* handle is probed or closed, and the queue, active_connections and the
\* handles held are what they were before the call.
C15_FailedFallbackChangesNothing ==
  [][\A c \in Callers :
       (pc[c] = "waiting" /\ pc'[c] # "waiting" /\ last'.fails > 0)
       => /\ pc'[c] = "exited"
          /\ last'.result = "conn_error"
          /\ last'.opens = 1
          /\ last'.probed = NoConn /\ last'.close = "none"
          /\ connections' = connections
          /\ active_connections' = active_connections
          /\ leaked' = leaked
          /\ conn' = conn /\ conn[c] = NoConn]_vars

\* A caller whose wait timed out on a pool with a counted handle and whose
\* fallback open failed.
C15_Witness ==
  /\ last.ev = "timeout" /\ last.fails = 1 /\ last.result = "conn_error"
  /\ pc[last.c] = "exited"
  /\ active_connections > 0

\* C16: when the body ends with a libvirtError, the caller observes that
\* error and the leased handle is the one that is probed; a probe that succeeds
\* leaves the handle queued (or its put pending) with no open, no close and
\* active_connections as it was; a probe that fails is followed by the close
\* and the one replacement open of any release, and by no other open.
C16_DomainErrorPassesThrough ==
  [][\A c \in Callers :
       (pc[c] = "using" /\ pc'[c] # "using" /\ last'.out = "libvirt_error")
       => /\ last'.result = "libvirt_error"
          /\ last'.probed = conn[c]
          /\ last'.alive
               => /\ last'.opens = 0 /\ last'.close = "none"
                  /\ active_connections' = active_connections
                  /\ \/ connections' = Append(connections, conn[c])
                     \/ pc'[c] = "put_wait" /\ conn'[c] = conn[c]
          /\ ~last'.alive
               => /\ last'.opens = 1 /\ last'.close \in {"ok", "failed"}
                  /\ conn[c] \notin Range(connections')]_vars

\* A body that raised libvirtError on a pooled handle, which then passed its
\* probe and is back in the queue.
C16_Witness ==
  /\ last.ev = "op_end" /\ last.out = "libvirt_error"
  /\ last.result = "libvirt_error"
  /\ last.alive /\ last.probed = last.leased
  /\ last.leased <= MaxMaxConnections
  /\ last.leased \in Range(connections)
  /\ pc[last.c] = "exited"

\* The class of the exception a caller of get_connection observes as result r.
\* A failed open is a libvirt.libvirtError: the one libvirt.open raises,
\* re-raised by line 51, or the one line 47 raises for a falsy handle.  An
\* error of the hypervisor raised by a call on a leased handle is a
\* libvirt.libvirtError too.
ErrorKind(r) ==
  CASE r = "conn_error" -> "libvirt.libvirtError"
    [] r = "libvirt_error" -> "libvirt.libvirtError"
    [] r = "timeout_error" -> "asyncio.TimeoutError"
    [] r = "runtime_error" -> "RuntimeError"
    [] r = "cancelled" -> "asyncio.CancelledError"
    [] r = "other_error" -> "Exception"
    [] OTHER -> "none"

\* C17: a failure to open a handle that reaches the caller of get_connection
\* has an error kind other than the kind of a hypervisor-domain error raised
\* by an operation on a leased handle.
C17_OpenFailureHasOwnKind ==
  (last.fails > 0 /\ last.result = "conn_error")
  => ErrorKind(last.result) # ErrorKind("libvirt_error")

\* C18: when close_all has run with no lease outstanding and no handle has
\* ever failed to close (or been lost unclosed), the queue is empty and
\* active_connections is 0.
C18_CloseAllResetsPool ==
  (/\ last.ev = "close_all" /\ last.close = "ok"
   /\ leaked = 0
   /\ \A c \in Callers : pc[c] \in {"idle", "exited"})
  => connections = <<>> /\ active_connections = 0

\* C19: close_all raises nothing and returns with the queue empty, whichever
\* handles fail to close: each handle that was queued has had its close()
\* called, which either worked (the handle is counted down) or failed (the
\* handle is lost unclosed).
C19_CloseAllDrainsDespiteFailures ==
  [][last'.ev = "close_all"
       => /\ last'.result = "none"
          /\ connections' = <<>>
          /\ Cardinality(last'.closed) + (leaked' - leaked) = Len(connections)
          /\ last'.closed \subseteq Range(connections)]_vars

\* close_all has run on two queued handles: the close of one failed, the other
\* was closed after it or before it, and the queue is empty.
C19_Witness ==
  /\ last.ev = "close_all" /\ last.close = "failed"
  /\ Cardinality(last.closed) = 1 /\ leaked = 1
  /\ max_connections = 2 /\ active_connections = 1
  /\ connections = <<>>
  /\ \A c \in Callers : pc[c] = "idle"

\* C20: close_all closes no handle that a caller holds and changes no lease,
\* and it lowers active_connections by the number of handles it has closed,
\* all of which were in the queue.
C20_CloseAllLeavesLeasesAlone ==
  [][last'.ev = "close_all"
       => /\ pc' = pc /\ conn' = conn
          /\ \A c \in Callers : conn[c] # NoConn => conn[c] \notin last'.closed
          /\ last'.closed \subseteq Range(connections)
          /\ active_connections - active_connections'
               = Cardinality(last'.closed)]_vars

\* close_all has run while a caller held a lease and another handle was
\* queued, and the close of a queued handle failed.
C20_Witness ==
  /\ last.ev = "close_all" /\ last.close = "failed"
  /\ Leased # {}
  /\ \A c \in Leased : conn[c] \notin last.closed
  /\ leaked > 0

\* Key k has an entry whose age at the present time is less than ttl.
Fresh(k) == k \in DOMAIN cache /\ now - TsGet(timestamps, k) < ttl

\* C21: get(k) returns the stored value when k has an entry younger than ttl;
\* otherwise it returns None and k has no entry afterwards.  A set(k, v) that
\* has returned leaves v stored under k with the present time, so that a get
\* before ttl has passed returns v.
C21_GetReturnsFreshEntries ==
  [][/\ clast'.op = "get"
          => LET k == clast'.key
             IN /\ clast'.exc = "none"
                /\ Fresh(k) => clast'.ret = cache[k]
                /\ ~Fresh(k) => /\ clast'.ret = None
                                /\ k \notin DOMAIN cache'
                                /\ k \notin TsKeys(timestamps')
     /\ (clast'.op = "set" /\ clast'.exc = "none")
          => /\ clast'.key \in DOMAIN cache'
             /\ cache'[clast'.key] = clast'.val
             /\ TsGet(timestamps', clast'.key) = now']_cacheVars

\* A get has returned the value of an entry one tick before its ttl runs out.
C21_Witness ==
  /\ clast.op = "get" /\ clast.key \in DOMAIN cache
  /\ clast.ret = cache[clast.key]
  /\ ttl = 2 /\ now - TsGet(timestamps, clast.key) = ttl - 1

\* C22: the cache never holds more than max_size entries.
C22_SizeWithinMax ==
  /\ Cardinality(DOMAIN cache) <= max_size
  /\ Len(timestamps) <= max_size

\* A set that had nothing to evict has returned on a cache of max_size 2,
\* which now holds two entries, the one just set being the last of them.
C22_Witness ==
  /\ clast.op = "set" /\ clast.exc = "none" /\ clast.evicted = None
  /\ max_size = 2 /\ Cardinality(DOMAIN cache) = 2
  /\ Len(timestamps) = 2
  /\ timestamps[2][1] = clast.key
  /\ timestamps[1][2] > 0

C25_OverwriteEvictsNothing ==
  [][(clast'.op = "set" /\ clast'.key \in DOMAIN cache)
     => /\ clast'.exc = "none"
        /\ DOMAIN cache' = DOMAIN cache
        /\ TsKeys(timestamps') = DOMAIN cache
        /\ cache'[clast'.key] = clast'.val
        /\ TsGet(timestamps', clast'.key) = now'
        /\ \A k \in DOMAIN cache \ {clast'.key} :
             /\ cache'[k] = cache[k]
             /\ TsGet(timestamps', k) = TsGet(timestamps, k)]_cacheVars

\* C26: invalidate(k) with a string k, the empty string included, deletes the
\* entry of k, if there is one, and leaves every other entry as it was;
\* invalidate() with no argument deletes every entry.
C26_InvalidateRemovesOnlyItsKey ==
  [][clast'.op = "invalidate"
     => /\ clast'.exc = "none"
        /\ clast'.key \in Keys
             => /\ cache' = DictDel(cache, clast'.key)
                /\ timestamps' = TsDel(timestamps, clast'.key)
        /\ clast'.key = None
             => cache' = EmptyDict /\ timestamps' = <<>>]_cacheVars

\* C27: no call of get, set or invalidate raises, whatever max_size >= 0 and
\* ttl the cache was made with.
C27_NoCallRaises == clast.exc = "none"

\* ------------------------------------------- the cache called by threads
\* The steps are the lines of get, set and invalidate: each reads or writes
\* one dict once, and the threads are switched between any two of them.

\* Each thread works on a key of its own.
KeyOrder == <<"vm1", "vm2", "_all_vms_", "">>
OwnKey(t) == KeyOrder[t]

\* The threads once the keys ks have been deleted from self.cache.
Forget(f, ks) ==
  [u \in Threads |-> IF OwnKey(u) \in ks THEN [f[u] EXCEPT !.mine = None]
                                         ELSE f[u]]

\* Thread t goes on to line l.
Goto(f, t, l) == [f EXCEPT ![t].pc = l]

\* The call of thread t ends: it returns r or raises x.
Ends(f, t, op, r, x) ==
  /\ th' = [f EXCEPT ![t] = [ThIdle EXCEPT !.mine = f[t].mine]]
  /\ clast' = [op |-> op, key |-> f[t].key, val |-> f[t].val, ret |-> r,
               exc |-> x, evicted |-> None]

\* The value every thread stores: which value is stored plays no part in
\* the interleaving of the dictionary operations.
ThValue == "[vm1]"

ThreadInit ==
  /\ PoolUnused
  /\ max_size \in 1..MaxSize
  /\ ttl \in 1..MaxTtl
  /\ MgmtUnused
  /\ ServerUnused
  /\ cache = EmptyDict
  /\ timestamps = <<>>
  /\ now = 0
  /\ clast = NoCall
  /\ th = NoThreads

\* Thread t calls get or set on its key, invalidate on its key, or
\* invalidate().
ThCall(t) ==
  /\ th[t].pc = 0
  /\ \E c \in {<<17, OwnKey(t), None>>, <<38, OwnKey(t), None>>,
               <<38, None, None>>}
            \cup {<<28, OwnKey(t), ThValue>>} :
       th' = [th EXCEPT ![t].pc = c[1], ![t].key = c[2], ![t].val = c[3]]
  /\ UNCHANGED <<vars, mgmtVars, serverVars, max_size, ttl, cache, timestamps, now, clast>>

\* One line of get run by thread t.
ThGet(t) ==
  LET k == th[t].key
      pc_t == th[t].pc
  IN /\ pc_t \in {17, 18, 19, 21, 22}
     /\ CASE pc_t = 17 ->
               /\ IF k \in DOMAIN cache
                  THEN th' = Goto(th, t, 18) /\ UNCHANGED clast
                  ELSE Ends(th, t, "get", None, "none")
               /\ UNCHANGED <<cache, timestamps>>
          [] pc_t = 18 ->
               /\ IF k \notin TsKeys(timestamps)
                  THEN Ends(th, t, "get", None, "KeyError")
                  ELSE /\ th' = Goto(th, t, IF now - TsGet(timestamps, k) < ttl
                                            THEN 19 ELSE 21)
                       /\ UNCHANGED clast
               /\ UNCHANGED <<cache, timestamps>>
          [] pc_t = 19 ->
               /\ IF k \in DOMAIN cache
                  THEN Ends(th, t, "get", cache[k], "none")
                  ELSE Ends(th, t, "get", None, "KeyError")
               /\ UNCHANGED <<cache, timestamps>>
          [] pc_t = 21 ->
               /\ IF k \in DOMAIN cache
                  THEN /\ cache' = DictDel(cache, k)
                       /\ th' = Goto(Forget(th, {k}), t, 22)
                       /\ UNCHANGED clast
                  ELSE /\ Ends(th, t, "get", None, "KeyError")
                       /\ UNCHANGED cache
               /\ UNCHANGED timestamps
          [] pc_t = 22 ->
               /\ IF k \in TsKeys(timestamps)
                  THEN /\ timestamps' = TsDel(timestamps, k)
                       /\ Ends(th, t, "get", None, "none")
                  ELSE /\ Ends(th, t, "get", None, "KeyError")
                       /\ UNCHANGED timestamps
               /\ UNCHANGED cache
     /\ UNCHANGED <<vars, mgmtVars, serverVars, max_size, ttl, now>>

\* One line of set run by thread t.
ThSet(t) ==
  LET k == th[t].key
      o == th[t].oldest
      pc_t == th[t].pc
  IN /\ pc_t \in {28, 29, 30, 31, 33, 34}
     /\ CASE pc_t = 28 ->
               /\ th' = Goto(th, t, IF Cardinality(DOMAIN cache) >= max_size
                                    THEN 29 ELSE 33)
               /\ UNCHANGED <<cache, timestamps, clast>>
          [] pc_t = 29 ->
               /\ IF timestamps = <<>>
                  THEN Ends(th, t, "set", None, "ValueError")
                  ELSE /\ th' = [th EXCEPT ![t].pc = 30,
                                           ![t].oldest = Oldest(timestamps)]
                       /\ UNCHANGED clast
               /\ UNCHANGED <<cache, timestamps>>
          [] pc_t = 30 ->
               /\ IF o \in DOMAIN cache
                  THEN /\ cache' = DictDel(cache, o)
                       /\ th' = Goto(Forget(th, {o}), t, 31)
                       /\ UNCHANGED clast
                  ELSE /\ Ends(th, t, "set", None, "KeyError")
                       /\ UNCHANGED cache
               /\ UNCHANGED timestamps
          [] pc_t = 31 ->
               /\ IF o \in TsKeys(timestamps)
                  THEN /\ timestamps' = TsDel(timestamps, o)
                       /\ th' = Goto(th, t, 33)
                       /\ UNCHANGED clast
                  ELSE /\ Ends(th, t, "set", None, "KeyError")
                       /\ UNCHANGED timestamps
               /\ UNCHANGED cache
          [] pc_t = 33 ->
               /\ cache' = DictPut(cache, k, th[t].val)
               /\ th' = [th EXCEPT ![t].pc = 34, ![t].mine = th[t].val]
               /\ UNCHANGED <<timestamps, clast>>
          [] pc_t = 34 ->
               /\ timestamps' = TsPut(timestamps, k, now)
               /\ Ends(th, t, "set", None, "none")
               /\ UNCHANGED cache
     /\ UNCHANGED <<vars, mgmtVars, serverVars, max_size, ttl, now>>

\* One line of invalidate run by thread t.
ThInvalidate(t) ==
  LET a == th[t].key
      pc_t == th[t].pc
  IN /\ pc_t \in {38, 40, 41, 43, 44}
     /\ CASE pc_t = 38 ->
               /\ IF ~Truthy(a)
                  THEN th' = Goto(th, t, 43) /\ UNCHANGED clast
                  ELSE IF a \in DOMAIN cache
                       THEN th' = Goto(th, t, 40) /\ UNCHANGED clast
                       ELSE Ends(th, t, "invalidate", None, "none")
               /\ UNCHANGED <<cache, timestamps>>
          [] pc_t = 40 ->
               /\ IF a \in DOMAIN cache
                  THEN /\ cache' = DictDel(cache, a)
                       /\ th' = Goto(Forget(th, {a}), t, 41)
                       /\ UNCHANGED clast
                  ELSE /\ Ends(th, t, "invalidate", None, "KeyError")
                       /\ UNCHANGED cache
               /\ UNCHANGED timestamps
          [] pc_t = 41 ->
               /\ IF a \in TsKeys(timestamps)
                  THEN /\ timestamps' = TsDel(timestamps, a)
                       /\ Ends(th, t, "invalidate", None, "none")
                  ELSE /\ Ends(th, t, "invalidate", None, "KeyError")
                       /\ UNCHANGED timestamps
               /\ UNCHANGED cache
          [] pc_t = 43 ->
               /\ cache' = EmptyDict
               /\ th' = Goto(Forget(th, Keys), t, 44)
               /\ UNCHANGED <<timestamps, clast>>
          [] pc_t = 44 ->
               /\ timestamps' = <<>>
               /\ Ends(th, t, "invalidate", None, "none")
               /\ UNCHANGED cache
     /\ UNCHANGED <<vars, mgmtVars, serverVars, max_size, ttl, now>>

ThreadNext ==
  \/ \E t \in Threads : ThCall(t)
  \/ \E t \in Threads : ThGet(t)
  \/ \E t \in Threads : ThSet(t)
  \/ \E t \in Threads : ThInvalidate(t)
  \/ Tick

ThreadSpec == ThreadInit /\ [][ThreadNext]_cacheVars

\* The threads that are inside no call.
AllIdle == \A t \in Threads : th[t].pc = 0

\* C28: when the lines of get, set and invalidate of concurrent threads
\* interleave, every call still behaves as if it ran alone: no call raises,
\* a thread about to return the entry of its own key (line 19) that stored
\* a value which no call removed since returns that value, and once every
\* call has ended the value map and the timestamp map have the same keys.
C28_CallsBehaveAtomically ==
  /\ clast.exc = "none"
  /\ \A t \in Threads :
       (th[t].pc = 19 /\ th[t].key = OwnKey(t) /\ th[t].mine # None)
         => (OwnKey(t) \in DOMAIN cache /\ cache[OwnKey(t)] = th[t].mine)
  /\ AllIdle => DOMAIN cache = TsKeys(timestamps)

-----------------------------------------------------------------------------
\* The functions of vm/management.py on the module's cache vm_info_cache.
\* A call runs without suspending between its first and its last access to
\* the cache, so each call is one step.  What get_connection does with the
\* handle is the pool's business (Spec); here a lease succeeds or raises.

\* The key under which list_vms stores the inventory.
AllVms == "_all_vms_"

\* The names start_vm, stop_vm and reboot_vm are called with: the domain the
\* hypervisor may know, and one it never knows.
VmNames == {"vm1", "vm2"}

\* The list list_vms builds from listAllDomains(): one dict per domain whose
\* state() did not raise.
ListResult(s, stateOk) ==
  IF s = "absent" \/ ~stateOk THEN "[]"
  ELSE IF s = "running" THEN "[vm1:running]" ELSE "[vm1:shutoff]"

\* (C38) a listing that stores its result whether or not caching is enabled.
ListVmsAlwaysStores(c, ts, t, use_cache, s, leaseOk, enumOk, stateOk) ==
  LET g == IF use_cache THEN CacheGet(c, ts, AllVms, t)
           ELSE Outcome(c, ts, None, "none")
      out(o, r, x, l, n) ==
        [cache |-> o.cache, timestamps |-> o.timestamps, ret |-> r,
         raised |-> x, leased |-> l, enums |-> n]
  IN IF use_cache /\ Truthy(g.ret)
     THEN out(g, g.ret, FALSE, FALSE, 0)
     ELSE IF ~leaseOk THEN out(g, None, TRUE, FALSE, 0)
     ELSE IF ~enumOk THEN out(g, None, TRUE, TRUE, 1)
     ELSE LET result == ListResult(s, stateOk)
              w == CacheSet(g.cache, g.timestamps, AllVms, result, t)
          IN out(w, IF w.exc = "none" THEN result ELSE None,
                 w.exc # "none", TRUE, 1)

\* list_vms(use_cache) at time t with the hypervisor in state s; leaseOk:
\* get_connection yields a handle; enumOk: listAllDomains() returns.
ListVms(c, ts, t, use_cache, s, leaseOk, enumOk, stateOk) ==
  LET g == IF use_cache THEN CacheGet(c, ts, AllVms, t)
           ELSE Outcome(c, ts, None, "none")
      out(o, r, x, l, n) ==
        [cache |-> o.cache, timestamps |-> o.timestamps, ret |-> r,
         raised |-> x, leased |-> l, enums |-> n]
  IN IF use_cache /\ Truthy(g.ret)
     THEN out(g, g.ret, FALSE, FALSE, 0)
     ELSE IF ~leaseOk THEN out(g, None, TRUE, FALSE, 0)
     ELSE IF ~enumOk THEN out(g, None, TRUE, TRUE, 1)
     ELSE LET result == ListResult(s, stateOk)
              w == IF use_cache
                   THEN CacheSet(g.cache, g.timestamps, AllVms, result, t)
                   ELSE g
          IN out(w, IF w.exc = "none" THEN result ELSE None,
                 w.exc # "none", TRUE, 1)

\* The two invalidations that follow a successful verb.
Invalidates(c, ts, x) ==
  LET i == CacheInvalidate(c, ts, x)
  IN CacheInvalidate(i.cache, i.timestamps, AllVms)

\* Whether the verb of op applies to a domain in state s, and the state the
\* verb leaves: create() starts the domain, destroy() stops it, shutdown()
\* and reboot() only ask the guest.
Applies(op, s) == IF op = "start" THEN s = "shutoff" ELSE s = "running"

After(op, force, s) ==
  IF op = "start" THEN "running"
  ELSE IF op = "stop" /\ force THEN "shutoff" ELSE s

\* start_vm, stop_vm(force) or reboot_vm of x; verbOk: the verb returns.
Mutate(c, ts, op, x, force, s, leaseOk, verbOk) ==
  LET out(c2, ts2, s2, x2, l, n, ok) ==
        [cache |-> c2, timestamps |-> ts2, vm_state |-> s2, raised |-> x2,
         leased |-> l, verbs |-> n, success |-> ok]
  IN IF ~leaseOk THEN out(c, ts, s, TRUE, FALSE, 0, FALSE)
     ELSE IF x # "vm1" \/ s = "absent" THEN out(c, ts, s, FALSE, TRUE, 0, FALSE)
     ELSE IF ~Applies(op, s) THEN out(c, ts, s, FALSE, TRUE, 0, FALSE)
     ELSE IF ~verbOk THEN out(c, ts, s, FALSE, TRUE, 1, FALSE)
     ELSE LET i == Invalidates(c, ts, x)
          IN out(i.cache, i.timestamps, After(op, force, s), FALSE, TRUE, 1,
                 TRUE)

\* The module's cache, and a hypervisor in any state.
MgmtInit ==
  /\ PoolUnused
  /\ max_size \in 1..MaxSize
  /\ ttl \in 1..MaxTtl
  /\ cache = EmptyDict
  /\ timestamps = <<>>
  /\ now = 0
  /\ clast = NoCall
  /\ th = NoThreads
  /\ vm_state \in {"absent", "shutoff", "running"}
  /\ mlast = NoOp
  /\ co = NoCoroutines
  /\ ServerUnused

MList(use_cache) ==
  \E leaseOk \in BOOLEAN, enumOk \in BOOLEAN, stateOk \in BOOLEAN :
    LET o == ListVms(cache, timestamps, now, use_cache, vm_state, leaseOk,
                     enumOk, stateOk)
    IN /\ cache' = o.cache
       /\ timestamps' = o.timestamps
       /\ mlast' = [op |-> "list", name |-> None, use_cache |-> use_cache,
                    at |-> now, leased |-> o.leased, enums |-> o.enums,
                    verbs |-> 0, raised |-> o.raised, success |-> FALSE,
                    ret |-> o.ret, had |-> DOMAIN cache,
                    seq |-> 1 - mlast.seq]
       /\ UNCHANGED <<vars, serverVars, th, co, max_size, ttl, now, clast, vm_state>>

\* The record of a call of start_vm, stop_vm or reboot_vm with outcome o.
Called(op, x, o) ==
  [op |-> op, name |-> x, use_cache |-> FALSE, at |-> now,
   leased |-> o.leased, enums |-> 0, verbs |-> o.verbs, raised |-> o.raised,
   success |-> o.success, ret |-> None, had |-> DOMAIN cache,
   seq |-> 1 - mlast.seq]

MStart(x) ==
  \E leaseOk \in BOOLEAN, verbOk \in BOOLEAN :
    LET o == Mutate(cache, timestamps, "start", x, FALSE, vm_state, leaseOk,
                    verbOk)
    IN /\ cache' = o.cache
       /\ timestamps' = o.timestamps
       /\ vm_state' = o.vm_state
       /\ mlast' = Called("start", x, o)
       /\ UNCHANGED <<vars, serverVars, th, co, max_size, ttl, now, clast>>

MStop(x, force) ==
  \E leaseOk \in BOOLEAN, verbOk \in BOOLEAN :
    LET o == Mutate(cache, timestamps, "stop", x, force, vm_state, leaseOk,
                    verbOk)
    IN /\ cache' = o.cache
       /\ timestamps' = o.timestamps
       /\ vm_state' = o.vm_state
       /\ mlast' = Called("stop", x, o)
       /\ UNCHANGED <<vars, serverVars, th, co, max_size, ttl, now, clast>>

MReboot(x) ==
  \E leaseOk \in BOOLEAN, verbOk \in BOOLEAN :
    LET o == Mutate(cache, timestamps, "reboot", x, FALSE, vm_state, leaseOk,
                    verbOk)
    IN /\ cache' = o.cache
       /\ timestamps' = o.timestamps
       /\ vm_state' = o.vm_state
       /\ mlast' = Called("reboot", x, o)
       /\ UNCHANGED <<vars, serverVars, th, co, max_size, ttl, now, clast>>

\* create_vm of vm/creation.py and of kvm_mcp_server.py for name x; ok: the
\* arguments are valid and qemu-img and virt-install (defineXML and create)
\* succeed.  The hypervisor defines and starts the domain when it has none of
\* that name.  Neither function refers to the cache or to the pool.
Create(c, ts, x, s, ok) ==
  LET done == ok /\ x = "vm1" /\ s = "absent"
  IN [cache |-> c, timestamps |-> ts,
      vm_state |-> IF done THEN "running" ELSE s,
      raised |-> FALSE, leased |-> FALSE, verbs |-> IF done THEN 1 ELSE 0,
      success |-> done]

\* reboot_vm of kvm_mcp_server.py for name x: it opens a connection of its
\* own; openOk: libvirt.open and lookupByName return; verbOk: domain.reboot()
\* returns 0.  It does not refer to the cache.
ServerReboot(c, ts, x, s, openOk, verbOk) ==
  LET found == openOk /\ x = "vm1" /\ s = "running"
  IN [cache |-> c, timestamps |-> ts, vm_state |-> s,
      raised |-> FALSE, leased |-> FALSE, verbs |-> IF found THEN 1 ELSE 0,
      success |-> found /\ verbOk]

MCreate(x) ==
  \E ok \in BOOLEAN :
    LET o == Create(cache, timestamps, x, vm_state, ok)
    IN /\ cache' = o.cache
       /\ timestamps' = o.timestamps
       /\ vm_state' = o.vm_state
       /\ mlast' = Called("create", x, o)
       /\ UNCHANGED <<vars, serverVars, th, co, max_size, ttl, now, clast>>

MServerReboot(x) ==
  \E openOk \in BOOLEAN, verbOk \in BOOLEAN :
    LET o == ServerReboot(cache, timestamps, x, vm_state, openOk, verbOk)
    IN /\ cache' = o.cache
       /\ timestamps' = o.timestamps
       /\ vm_state' = o.vm_state
       /\ mlast' = Called("server_reboot", x, o)
       /\ UNCHANGED <<vars, serverVars, th, co, max_size, ttl, now, clast>>

MgmtNext ==
  \/ \E u \in BOOLEAN : MList(u)
  \/ \E x \in VmNames : MStart(x)
  \/ \E x \in VmNames, f \in BOOLEAN : MStop(x, f)
  \/ \E x \in VmNames : MReboot(x)
  \/ \E x \in VmNames : MCreate(x)
  \/ \E x \in VmNames : MServerReboot(x)
  \/ Tick

mgmtSpecVars == <<cacheVars, mgmtVars>>

MgmtSpec == MgmtInit /\ [][MgmtNext]_mgmtSpecVars

\* C29: when a listing with use_cache=True has enumerated the hypervisor and
\* the next call is again a listing with use_cache=True, made less than ttl
\* later, the second listing enumerates nothing, leases no connection and
\* returns what the first returned, whatever the inventory was.
C29_SecondListingFromCache ==
  [][(/\ mlast.op = "list" /\ mlast.use_cache
      /\ ~mlast.raised /\ mlast.enums = 1
      /\ mlast'.seq # mlast.seq
      /\ mlast'.op = "list" /\ mlast'.use_cache
      /\ mlast'.at - mlast.at < ttl)
     => (/\ mlast'.enums = 0
         /\ ~mlast'.leased
         /\ ~mlast'.raised
         /\ mlast'.ret = mlast.ret)]_mgmtSpecVars

\* C30: once start_vm, stop_vm or reboot_vm has returned success for x, the
\* cache has no entry for x and none under '_all_vms_': get misses on both.
C30_SuccessLeavesNoEntry ==
  (mlast.op \in {"start", "stop", "reboot"} /\ mlast.success)
    => /\ mlast.name \notin DOMAIN cache
       /\ AllVms \notin DOMAIN cache
       /\ CacheGet(cache, timestamps, mlast.name, now).ret = None
       /\ CacheGet(cache, timestamps, AllVms, now).ret = None

\* C31: once create_vm, or reboot_vm of kvm_mcp_server.py, has returned
\* success for x, the cache has no entry for x and none under '_all_vms_',
\* so the next listing cannot be answered from a list cached before it.
C31_CreateAndRebootInvalidate ==
  (mlast.op \in {"create", "server_reboot"} /\ mlast.success)
    => /\ mlast.name \notin DOMAIN cache
       /\ AllVms \notin DOMAIN cache

-----------------------------------------------------------------------------
\* The management functions of vm/management.py called by concurrent
\* coroutines of one event loop.  A coroutine runs until it awaits: in
\* connections.get() of get_connection (pool.py line 39, where wait_for hands
\* the result over through the event loop) and in connections.put() of the
\* release (line 58) while the queue is full.  The hypervisor is healthy:
\* getVersion() and state() return and libvirt.open succeeds after
\* construction, so a release always takes the branch of line 58.

\* The handles opened by _initialize, and the one coroutine t opens on the
\* timeout of its wait.  Which handle a call works on makes no difference to
\* the cache, so all handles bear one name.
Constructed(k) == [i \in 1..k |-> 1]

Fallback(t) == 1

\* The calls coroutine t makes: the first coroutine calls start_vm, stop_vm
\* and reboot_vm on vm1, the others call list_vms.
CoCalls(t) ==
  IF t = 1
  THEN {[CoIdle EXCEPT !.op = op, !.name = "vm1"] : op \in {"start", "reboot"}}
       \cup {[CoIdle EXCEPT !.op = "stop", !.name = "vm1", !.force = f] :
               f \in BOOLEAN}
  ELSE {[CoIdle EXCEPT !.op = "list", !.use_cache = u] : u \in BOOLEAN}

\* The record of the call r when it returns with ret.
ReturnedCall(r, ret) ==
  [NoOp EXCEPT !.op = r.op, !.name = r.name, !.success = r.success,
               !.ret = ret]

\* What remains of call r once get_connection has exited, on the cache
\* <<c, ts>>: list_vms stores its result (lines 51-52) and returns it, the
\* others return their dict.
AfterWith(r, c, ts) ==
  IF r.op = "list" /\ r.use_cache
  THEN CacheSet(c, ts, AllVms, r.snap, now)
  ELSE Outcome(c, ts, None, "none")

ConcInit ==
  /\ phase = "ready"
  /\ max_connections \in 1..MaxMaxConnections
  /\ \E k \in 0..max_connections :
       connections = Constructed(k) /\ active_connections = k
  /\ leaked = 0
  /\ pc = [c \in Callers |-> "idle"]
  /\ conn = [c \in Callers |-> NoConn]
  /\ last = NoEv
  /\ max_size = MaxSize
  /\ ttl = MaxTtl
  /\ cache = EmptyDict
  /\ timestamps = <<>>
  /\ now = 0
  /\ clast = NoCall
  /\ th = NoThreads
  /\ vm_state \in {"shutoff", "running"}
  /\ mlast = NoOp
  /\ co = NoCoroutines
  /\ ServerUnused

\* Coroutine t calls a management function.  list_vms returns at once when
\* the cache answers (lines 16-20).  Otherwise the call enters get_connection:
\* connections.get() takes the first queued handle, and the coroutine resumes
\* with it after wait_for has passed it on; on an empty queue it waits.
CoBegin(t) ==
  /\ co[t].pc = "idle"
  /\ \E r \in CoCalls(t) :
       LET g == IF r.op = "list" /\ r.use_cache
                THEN CacheGet(cache, timestamps, AllVms, now)
                ELSE Outcome(cache, timestamps, None, "none")
       IN /\ cache' = g.cache
          /\ timestamps' = g.timestamps
          /\ IF Truthy(g.ret)
             THEN /\ mlast' = ReturnedCall(r, g.ret)
                  /\ UNCHANGED <<co, connections>>
             ELSE IF connections # <<>>
             THEN /\ co' = [co EXCEPT ![t] = [r EXCEPT !.pc = "using",
                                                       !.h = Head(connections)]]
                  /\ connections' = QueueAfterGet(connections)
                  /\ UNCHANGED mlast
             ELSE /\ co' = [co EXCEPT ![t] = [r EXCEPT !.pc = "waiting"]]
                  /\ UNCHANGED <<mlast, connections>>
  /\ UNCHANGED <<phase, max_connections, active_connections, leaked, pc, conn,
                 last, serverVars, th, max_size, ttl, now, clast, vm_state>>

\* A put wakes the waiting t: connections.get() returns the queued handle.
CoTake(t) ==
  /\ co[t].pc = "waiting"
  /\ connections # <<>>
  /\ co' = [co EXCEPT ![t].pc = "using", ![t].h = Head(connections)]
  /\ connections' = QueueAfterGet(connections)
  /\ UNCHANGED <<nonPool_co, phase, max_connections, active_connections,
                 leaked, pc, conn, last>>

\* The wait of t on the empty queue times out, also when a put has just
\* queued a handle: line 45 opens a handle, which is not counted.
CoTimeout(t) ==
  /\ co[t].pc = "waiting"
  /\ co' = [co EXCEPT ![t].pc = "using", ![t].h = Fallback(t)]
  /\ UNCHANGED <<vars, nonPool_co>>

\* The body of the `async with` of t runs, then the release up to its put.
\* When the queue has room the put returns at once and the call runs on to
\* its return.
CoBody(t) ==
  /\ co[t].pc = "using"
  /\ \E verbOk \in BOOLEAN :
       LET r == co[t]
           m == Mutate(cache, timestamps, r.op, r.name, r.force, vm_state,
                       TRUE, verbOk)
           b == IF r.op = "list"
                THEN [cache |-> cache, timestamps |-> timestamps,
                      vm_state |-> vm_state,
                      r |-> [r EXCEPT !.snap = ListResult(vm_state, TRUE)]]
                ELSE [cache |-> m.cache, timestamps |-> m.timestamps,
                      vm_state |-> m.vm_state,
                      r |-> [r EXCEPT !.success = m.success]]
           w == AfterWith(b.r, b.cache, b.timestamps)
       IN /\ vm_state' = b.vm_state
          /\ IF ~QueueFull(connections)
             THEN /\ connections' = Append(connections, r.h)
                  /\ cache' = w.cache
                  /\ timestamps' = w.timestamps
                  /\ mlast' = ReturnedCall(b.r, b.r.snap)
                  /\ co' = [co EXCEPT ![t] = CoIdle]
             ELSE /\ cache' = b.cache
                  /\ timestamps' = b.timestamps
                  /\ co' = [co EXCEPT ![t] = [b.r EXCEPT !.pc = "put_wait"]]
                  /\ UNCHANGED <<connections, mlast>>
  /\ UNCHANGED <<phase, max_connections, active_connections, leaked, pc, conn,
                 last, serverVars, th, max_size, ttl, now, clast>>

\* The put of line 58 resumes once the queue has room; the call runs on to
\* its return.
CoPutResume(t) ==
  /\ co[t].pc = "put_wait"
  /\ ~QueueFull(connections)
  /\ LET r == co[t]
         w == AfterWith(r, cache, timestamps)
     IN /\ connections' = Append(connections, r.h)
        /\ cache' = w.cache
        /\ timestamps' = w.timestamps
        /\ mlast' = ReturnedCall(r, r.snap)
        /\ co' = [co EXCEPT ![t] = CoIdle]
  /\ UNCHANGED <<phase, max_connections, active_connections, leaked, pc, conn,
                 last, serverVars, th, max_size, ttl, now, clast, vm_state>>

ConcNext ==
  \/ \E t \in Coroutines : CoBegin(t)
  \/ \E t \in Coroutines : CoTake(t)
  \/ \E t \in Coroutines : CoTimeout(t)
  \/ \E t \in Coroutines : CoBody(t)
  \/ \E t \in Coroutines : CoPutResume(t)

concVars == <<vars, nonPool>>

ConcSpec == ConcInit /\ [][ConcNext]_concVars

\* The list an enumeration would build now.
CurrentList == ListResult(vm_state, TRUE)

\* Every mutating call that has run its verb has returned.
MutationsReturned ==
  \A t \in Coroutines : ~(co[t].pc = "put_wait" /\ co[t].op # "list")

\* C32: once a successful start_vm, stop_vm or reboot_vm has returned, the
\* cache holds under '_all_vms_' no list that was enumerated before the
\* mutation, so no later listing with use_cache=True returns one, also when
\* listings ran concurrently with the mutating call.
C32_NoStaleSnapshotAfterMutation ==
  MutationsReturned
    => (AllVms \in DOMAIN cache => cache[AllVms] = CurrentList)

-----------------------------------------------------------------------------
\* handle_request of kvm_mcp_server.py, as a function of the request and of
\* what the handler it calls does.

\* Method names: none, the empty string, "tools/call", one for which the
\* module has no handle_<method>, and "request", for which it has one
\* (handle_request itself).
Methods == {None, "", "tools/call", "nosuch", "request"}

\* Tool names: none, the empty string, a tool of the module, a name the module
\* does not define, and a name the module defines that is no function (the
\* imported module json).
Tools == {None, "", "list_vms", "invalid_tool", "json"}

Ids == {None, "7"}

Requests ==
  {[NoReq EXCEPT !.json = j] : j \in {"invalid", "array"}}
  \cup {[NoReq EXCEPT !.id = i, !.method = m, !.params = p] :
          i \in Ids, m \in Methods, p \in {None, "str"}}
  \cup {[NoReq EXCEPT !.id = i, !.method = m, !.params = "dict", !.tool = n] :
          i \in Ids, m \in Methods, n \in Tools}

\* What the awaited handler does: it returns a result, returns a dict with
\* status "error", raises ValueError, or raises another exception.
HandlerOutcomes == {"result", "status_error", "ValueError", "Exception"}

\* globals().get(name) is truthy.
Defined(name) == name \in {"list_vms", "json"}

\* The outcome of `await handler(...)`: calling what is no function raises
\* TypeError, and handle_request called with the keywords of params also does.
Awaited(r, out) ==
  IF r.method = "tools/call"
  THEN IF r.tool = "json" THEN "Exception" ELSE out
  ELSE "Exception"

Response(code, id) == [code |-> code, id |-> id]

\* handle_request(request) when the handler does out.
HandleRequest(r, out) ==
  IF r.json = "invalid" THEN Response(-32700, None)
  ELSE IF r.json # "object" THEN Response(-32603, None)
  ELSE IF ~Truthy(r.method) THEN Response(-32600, r.id)
  ELSE IF r.params = "str" THEN Response(-32602, r.id)
  ELSE IF r.method = "tools/call" /\ ~Truthy(r.tool)
       THEN Response(-32600, r.id)
  ELSE IF ~(IF r.method = "tools/call" THEN Defined(r.tool)
                                       ELSE r.method = "request")
       THEN Response(-32601, r.id)
  ELSE LET o == Awaited(r, out)
       IN CASE o = "result" -> Response(0, r.id)
            [] o = "status_error" -> Response(-32603, r.id)
            [] o = "ValueError" -> Response(-32602, r.id)
            [] o = "Exception" -> Response(-32603, r.id)

\* handle_request is about to be called with one of Requests, and the handler
\* it may call is about to do one of HandlerOutcomes.
RpcInit ==
  /\ PoolUnused
  /\ MgmtUnused
  /\ max_size = 0 /\ ttl = 0
  /\ cache = EmptyDict /\ timestamps = <<>>
  /\ now = 0 /\ clast = NoCall
  /\ th = NoThreads
  /\ srv = NoSrv
  /\ \E r \in Requests, out \in HandlerOutcomes :
       rpc = [req |-> r, out |-> out, resp |-> NoResp]

\* response = await handle_request(request)
Handle ==
  /\ rpc.resp = NoResp
  /\ rpc' = [rpc EXCEPT !.resp = HandleRequest(rpc.req, rpc.out)]
  /\ UNCHANGED <<vars, max_size, ttl, cache, timestamps, now, clast, th,
                 mgmtVars, srv>>

RpcNext == Handle

rpcVars == <<vars, nonPool>>

RpcSpec == RpcInit /\ [][RpcNext]_rpcVars

\* The code the claim's order gives: -32700 for text that is not JSON, -32600
\* for a missing method, -32602 for params that are no object, -32601 for an
\* unknown method or tool name, -32603 for a handler that raises or returns
\* status "error", and otherwise a result.
ExpectedCode(r, out) ==
  IF r.json = "invalid" THEN -32700
  ELSE IF r.json # "object" \/ ~Truthy(r.method) THEN -32600
  ELSE IF r.params = "str" THEN -32602
  ELSE IF r.method = "tools/call" /\ r.tool \notin {"list_vms"} THEN -32601
  ELSE IF r.method # "tools/call" /\ r.method # "request" THEN -32601
  ELSE IF out = "result" /\ r.method = "tools/call" THEN 0
  ELSE -32603

\* The request has been answered.
Answered == rpc.resp # NoResp

\* C33: handle_request answers with the first code that applies, in the order
\* -32700 (not JSON), -32600 (no method), -32602 (params no object), -32601
\* (unknown method or tool name), -32603 (handler raises or returns status
\* "error"), and with a result otherwise.
C33_FirstApplicableCode ==
  Answered => rpc.resp.code = ExpectedCode(rpc.req, rpc.out)

-----------------------------------------------------------------------------
\* Further properties of the pool (specification Spec).

\* C34: active_connections is never negative, whatever sequence of
\* construction, acquire, timeout fallback, release and close_all has run.
C34_ActiveNeverNegative == active_connections >= 0

\* C35: whenever no acquire, release or close_all is mid-step, every handle
\* that was opened and has not been closed is in the available queue or held
\* by a lease: there is no open handle that nothing refers to.
C35_NoHandleLeaked == Quiescent => leaked = 0

\* C36: an asyncio.TimeoutError with which the body of a lease ends reaches
\* the caller as that error, makes the pool open no fallback handle, and the
\* release logic runs on the handle that was leased.
C36_BodyTimeoutIsAnOperationError ==
  (last.ev = "op_end" /\ last.out = "timeout_error") =>
    /\ last.result = "timeout_error"
    /\ last.probed = last.leased
    /\ last.alive => last.opens = 0

-----------------------------------------------------------------------------
\* A further property of the cache (specification CacheSpec).

\* C37: after every get, set or invalidate of a single-threaded sequence of
\* calls, self.cache and self.timestamps have exactly the same keys.
C37_SameKeys == DOMAIN cache = TsKeys(timestamps)

\* A set on a full cache has just evicted one key and stored another: the
\* evicted key is in neither map, the stored key in both.
C37_Witness ==
  /\ clast.op = "set" /\ clast.exc = "none"
  /\ clast.evicted # None /\ clast.evicted # clast.key
  /\ clast.evicted \notin DOMAIN cache \cup TsKeys(timestamps)
  /\ clast.key \in DOMAIN cache \cap TsKeys(timestamps)
  /\ max_size = 2 /\ Cardinality(DOMAIN cache) = 2

-----------------------------------------------------------------------------
\* A further property of the listing (specification MgmtSpec).

\* C38: a listing with caching disabled neither reads nor writes the cache:
\* it leases a connection and enumerates the domains through it even when a
\* fresh list is cached, and every cache entry, the sentinel entry included,
\* is after the call what it was before.
C38_UncachedListingLeavesCache ==
  [][(mlast'.seq # mlast.seq /\ mlast'.op = "list" /\ ~mlast'.use_cache)
       => /\ cache' = cache
          /\ timestamps' = timestamps
          /\ mlast'.leased \/ mlast'.raised
          /\ mlast'.leased => mlast'.enums = 1
          /\ ~mlast'.raised => mlast'.ret = ListResult(vm_state, TRUE)
                               \/ mlast'.ret = ListResult(vm_state, FALSE)]_mgmtSpecVars

\* An uncached listing has enumerated through a lease although a fresh list,
\* older than the present state of the VM, was cached; that list is still
\* cached.
C38_Witness ==
  /\ mlast.op = "list" /\ ~mlast.use_cache /\ ~mlast.raised
  /\ mlast.leased /\ mlast.enums = 1
  /\ Fresh(AllVms)
  /\ cache[AllVms] # mlast.ret
  /\ mlast.ret = CurrentList

-----------------------------------------------------------------------------
\* The server of kvm_mcp/server.py: main reads request lines and answers them
\* one at a time through handle_request, which calls list_vms of
\* vm/management.py on the pool and the cache; a signal creates a task that
\* runs shutdown.

MaxLines == 3
MaxSignals == 1

\* What a line read from stdin is: text that is not JSON; a JSON value that is
\* not an object; an object without "method"; an initialize request; a
\* request with another method; tools/call without "params"; tools/call of a
\* tool the server does not know; tools/call of list_vms with arguments {}.
LineKinds == {"invalid", "nondict", "nomethod", "initialize", "unknown_method",
              "noparams", "unknown_tool", "list_vms"}

\* Lines for which the except clause of handle_request itself raises:
\* `request` is unbound when json.loads raised, and has no get() when it is
\* not a dict.
Raising == {"invalid", "nondict"}

Lines == {[kind |-> k, id |-> i] : k \in LineKinds, i \in Ids}

\* The error code of the response to line l (0: a result); ok: the tool
\* returned.  request["id"] raises KeyError when the request has no id.
ServerCode(l, ok) ==
  CASE l.kind = "initialize" -> IF l.id = None THEN -32603 ELSE 0
    [] l.kind = "list_vms" -> IF ok /\ l.id # None THEN 0 ELSE -32603
    [] OTHER -> -32603

\* main is suspended at an await at which the event loop runs other tasks:
\* the readline in the executor, the wait on the queue, or a put on a full
\* queue.
MainSuspended ==
  \/ srv.pc = "reading"
  \/ srv.pc = "handling" /\ pc[1] \in {"waiting", "put_wait", "repl_put_wait"}

\* connection_pool.close_all() on the present queue; bad: the handles whose
\* close() raises.
Drained(bad) ==
  CloseLoop(connections, bad,
            [q |-> connections, act |-> active_connections, lk |-> leaked,
             closed |-> {}, raised |-> FALSE])

\* The module-level pool and cache have been constructed and main has
\* installed its signal handlers and is about to read its first line.
ServerInit ==
  /\ phase = "ready"
  /\ max_connections \in 1..MaxMaxConnections
  /\ \E k \in 0..max_connections :
       /\ connections = [i \in 1..k |-> i]
       /\ active_connections = k
  /\ leaked = 0
  /\ pc = [c \in Callers |-> "idle"]
  /\ conn = [c \in Callers |-> NoConn]
  /\ last = NoEv
  /\ max_size = MaxSize /\ ttl = MaxTtl
  /\ cache = EmptyDict /\ timestamps = <<>>
  /\ now = 0 /\ clast = NoCall
  /\ th = NoThreads
  /\ vm_state \in {"absent", "running"}
  /\ mlast = NoOp
  /\ co = NoCoroutines
  /\ rpc = NoRpc
  /\ srv = [NoSrv EXCEPT !.pc = "reading"]

\* SIGINT or SIGTERM is delivered: the handler creates a task for shutdown.
SrvSignal ==
  /\ srv.pc # "stopped"
  /\ srv.signals < MaxSignals
  /\ srv' = [srv EXCEPT !.signals = srv.signals + 1, !.tasks = srv.tasks + 1]
  /\ UNCHANGED <<vars, max_size, ttl, cache, timestamps, now, clast, th,
                 mgmtVars, rpc>>

\* The task created by the signal handler runs shutdown: close_all, then
\* vm_info_cache.invalidate().  main goes on where it was.
SrvShutdownTask ==
  /\ srv.tasks > 0
  /\ MainSuspended
  /\ \E bad \in SUBSET Range(connections) :
       LET st == Drained(bad)
       IN /\ connections' = st.q
          /\ active_connections' = st.act
          /\ leaked' = st.lk
          /\ last' = IF srv.pc = "handling" /\ pc[1] # "waiting" THEN last
                     ELSE [NoEv EXCEPT !.ev = "close_all",
                                       !.close = IF bad = {} THEN "ok"
                                                 ELSE "failed",
                                       !.closed = st.closed]
  /\ cache' = EmptyDict
  /\ timestamps' = <<>>
  /\ srv' = [srv EXCEPT !.tasks = srv.tasks - 1, !.closed = TRUE]
  /\ UNCHANGED <<phase, max_connections, pc, conn, max_size, ttl, now, clast,
                 th, mgmtVars, rpc>>

\* readline returns "": end of input, the loop is left.
SrvReadEof ==
  /\ srv.pc = "reading"
  /\ srv' = [srv EXCEPT !.pc = "stopped"]
  /\ UNCHANGED <<vars, max_size, ttl, cache, timestamps, now, clast, th,
                 mgmtVars, rpc>>

\* A line is read on which handle_request raises: main's `except Exception`
\* runs shutdown and the loop is left without a response.
SrvReadRaising ==
  /\ srv.pc = "reading"
  /\ srv.nread < MaxLines
  /\ \E l \in Lines, bad \in SUBSET Range(connections) :
       LET st == Drained(bad)
       IN /\ l.kind \in Raising /\ l.id = None
          /\ connections' = st.q
          /\ active_connections' = st.act
          /\ leaked' = st.lk
          /\ last' = [NoEv EXCEPT !.ev = "close_all",
                                  !.close = IF bad = {} THEN "ok" ELSE "failed",
                                  !.closed = st.closed]
          /\ srv' = [srv EXCEPT !.pc = "stopped", !.nread = srv.nread + 1,
                                !.line = l, !.raised = TRUE, !.closed = TRUE]
  /\ cache' = EmptyDict
  /\ timestamps' = <<>>
  /\ UNCHANGED <<phase, max_connections, pc, conn, max_size, ttl, now, clast,
                 th, mgmtVars, rpc>>

\* A line is read that handle_request answers without calling a tool, or
\* list_vms is called and returns the cached list.
SrvReadAnswered ==
  /\ srv.pc = "reading"
  /\ srv.nread < MaxLines
  /\ \E l \in Lines :
       /\ l.kind \notin Raising
       /\ l.kind = "list_vms" => Truthy(CacheGet(cache, timestamps, AllVms, now).ret)
       /\ srv' = [srv EXCEPT !.nread = srv.nread + 1,
                             !.nresp = srv.nresp + 1,
                             !.line = l,
                             !.resp = Response(ServerCode(l, TRUE), l.id),
                             !.late = srv.late \/ srv.closed]
  /\ UNCHANGED <<vars, max_size, ttl, cache, timestamps, now, clast, th,
                 mgmtVars, rpc>>

\* A list_vms request is read and the cache has no list (or an empty one):
\* handle_request goes on to lease a connection.
SrvReadList ==
  /\ srv.pc = "reading"
  /\ srv.nread < MaxLines
  /\ \E i \in Ids :
       LET g == CacheGet(cache, timestamps, AllVms, now)
       IN /\ ~Truthy(g.ret)
          /\ cache' = g.cache
          /\ timestamps' = g.timestamps
          /\ srv' = [srv EXCEPT !.pc = "handling",
                                !.nread = srv.nread + 1,
                                !.line = [kind |-> "list_vms", id |-> i],
                                !.late = srv.late \/ srv.closed]
  /\ UNCHANGED <<vars, max_size, ttl, now, clast, th, mgmtVars, rpc>>

\* list_vms enters `async with connection_pool.get_connection()`.
SrvBegin ==
  /\ srv.pc = "handling"
  /\ Begin(1)

SrvTake ==
  /\ srv.pc = "handling"
  /\ Take(1)

SrvTimeout ==
  /\ srv.pc = "handling"
  /\ Timeout(1)

\* The body of list_vms ends: listAllDomains returned or raised libvirtError.
SrvBody ==
  /\ srv.pc = "handling"
  /\ OpEnd(1)
  /\ last'.out \in {"ok", "libvirt_error"}

\* A put that was suspended on the full queue resumes once shutdown has
\* emptied the queue.
SrvPutResume ==
  /\ srv.pc = "handling"
  /\ pc[1] \in {"put_wait", "repl_put_wait"}
  /\ ~QueueFull(connections)
  /\ connections' = Append(connections, conn[1])
  /\ active_connections' = IF pc[1] = "repl_put_wait"
                           THEN active_connections + 1
                           ELSE active_connections
  /\ pc' = [pc EXCEPT ![1] = "exited"]
  /\ conn' = [conn EXCEPT ![1] = NoConn]
  /\ last' = [last EXCEPT !.ev = "put_resume"]
  /\ UNCHANGED <<nonPool, phase, max_connections, leaked>>

\* get_connection has been left: list_vms stores and returns its list, or
\* the exception reaches the except clause of handle_request; the response
\* is printed and main reads on.
SrvRespond ==
  /\ srv.pc = "handling"
  /\ pc[1] = "exited"
  /\ \E stateOk \in BOOLEAN :
       LET ok == last.result = "ok"
           result == ListResult(vm_state, stateOk)
           w == IF ok THEN CacheSet(cache, timestamps, AllVms, result, now)
                ELSE Outcome(cache, timestamps, None, "none")
       IN /\ cache' = w.cache
          /\ timestamps' = w.timestamps
          /\ srv' = [srv EXCEPT !.pc = "reading",
                                !.nresp = srv.nresp + 1,
                                !.resp = Response(ServerCode(srv.line, ok),
                                                  srv.line.id)]
  /\ pc' = [pc EXCEPT ![1] = "idle"]
  /\ UNCHANGED <<phase, max_connections, connections, active_connections,
                 leaked, conn, last, max_size, ttl, now, clast, th, mgmtVars,
                 rpc>>

ServerNext ==
  \/ SrvSignal
  \/ SrvShutdownTask
  \/ SrvReadEof
  \/ SrvReadRaising
  \/ SrvReadAnswered
  \/ SrvReadList
  \/ SrvBegin
  \/ SrvTake
  \/ SrvTimeout
  \/ SrvBody
  \/ SrvPutResume
  \/ SrvRespond

serverSpecVars == <<vars, nonPool>>

ServerSpec == ServerInit /\ [][ServerNext]_serverSpecVars

\* A handle has been opened after shutdown had closed the pool.
OpenedAfterClose ==
  srv.closed /\ last.ev \in {"timeout", "op_end"} /\ last.opens > last.fails

\* C39: once a signal has been delivered and shutdown has run, the server
\* stops: no line read after that is handled and no handle is opened on the
\* closed pool.
C39_SignalStopsServer ==
  srv.signals > 0 => ~srv.late /\ ~OpenedAfterClose

\* C40: every request line read gets exactly one response, carrying the id
\* of that line, before the next line is read, and handle_request never
\* raises.
C40_OneResponsePerLine ==
  /\ ~srv.raised
  /\ srv.pc \in {"reading", "stopped"} =>
       /\ srv.nresp = srv.nread
       /\ srv.nread > 0 => srv.resp.id = srv.line.id

====
